---- MODULE Spec2Model ----
(***************************************************************************)
(* Model of the Cloudflare load balancer resource                          *)
(* (cloudflare/resource_cloudflare_load_balancer.go): the geo-pool codec   *)
(* (expandGeoPools / flattenGeoPools) and the five lifecycle handlers      *)
(* Create, Read, Update, Delete and Import, each as one atomic action.     *)
(*                                                                         *)
(* Go values are modelled as follows.                                      *)
(*  - a string that the code splits (the resource id, the zone name) is a  *)
(*    sequence of one-character strings; every other string is a TLA+      *)
(*    string;                                                              *)
(*  - a []interface{} holding strings is a sequence of Iface values, a     *)
(*    []string a sequence of strings;                                      *)
(*  - a map[string][]string is a function whose DOMAIN is its key set; the *)
(*    nil map reads as the empty map, as it does in Go;                    *)
(*  - a *schema.Set is a TLA+ set of records (items with equal content are *)
(*    one item); Set.List() yields it in hash order, one fixed order per   *)
(*    set, and the codec is also run under every order;                    *)
(*  - an error a handler returns is a string, NoErr is Go's nil error; an  *)
(*    error a remote call returns is its message as a sequence of words,   *)
(*    <<>> being nil;                                                      *)
(*  - *loadBalancer.Enabled is a boolean: the remote always reports the    *)
(*    field.                                                               *)
(*                                                                         *)
(* The SDK calls Create for planned data without identifier, Update for a  *)
(* planned change of a resource it holds, Read and Delete for a resource   *)
(* it holds, Import for fresh data.  The remote is free to answer each     *)
(* call with an error or with any of its results.                          *)
(***************************************************************************)
EXTENDS Integers, Sequences, FiniteSets, TLC

VARIABLES
    d,          \* the *schema.ResourceData the handlers read and write
    op,         \* the handler that ran last
    ret,        \* what it returned (NoErr is nil)
    calls,      \* the remote calls it made, in order
    pre,        \* the resource data as that handler was given it
    declared,   \* codec: the geo-pool blocks as declared, in order
    geoType,    \* codec: "pop" or "region"
    cfg,        \* codec: pool.(*schema.Set).List()
    expanded,   \* codec: what expandGeoPools returned
    flattened,  \* codec: what flattenGeoPools returned
    step        \* codec: how far the round trip went

vars == <<d, op, ret, calls, pre, declared, geoType, cfg, expanded, flattened, step>>

lifecycleVars == <<d, op, ret, calls, pre>>

codecVars == <<declared, geoType, cfg, expanded, flattened, step>>

----------------------------------------------------------------------------
(* Bounds and input universes *)

\* longest list of declared geo-pool blocks the codec is given
MaxDeclared == 2

\* longest import identifier, in characters
MaxIdLen == 3

NoErr == ""

\* the error of line 184
MissingZone == "either zone name or ID must be provided"

EmptyStr == <<>>

NilMap == <<>>

GeoTypes == {"pop", "region"}

Locations == {"LAX", "JFK"}

\* pool-identifier lists as the remote holds them ([]string)
PoolIdLists == {<<>>, <<"p1">>, <<"p1", "p2">>, <<"p2", "p1">>}

----------------------------------------------------------------------------
(* Helpers of the provider and of the SDK that the file calls *)

Iface(s) == [kind |-> "string", val |-> s]

\* []interface{} -> []string, element by element
expandInterfaceToStringList(list) == [i \in DOMAIN list |-> list[i].val]

\* []string -> []interface{}, element by element
flattenStringList(list) == [i \in DOMAIN list |-> Iface(list[i])]

\* one item of a geo-pool set: map[string]interface{}{geoType: k, "pool_ids": v}
geoConf(gt, k, v) == (gt :> k) @@ ("pool_ids" :> v)

GeoItems(gt) ==
    {geoConf(gt, k, flattenStringList(l)) : k \in Locations, l \in PoolIdLists}

RECURSIVE NewSetFrom(_, _)
NewSetFrom(items, acc) ==
    IF items = <<>> THEN acc
    ELSE NewSetFrom(Tail(items), acc \cup {Head(items)})

\* schema.NewSet(hash, items): items are added one by one, an item whose
\* content is already in the set is dropped
NewSet(items) == NewSetFrom(items, {})

\* the orders Set.List() may yield a set in
SetLists(s) ==
    {q \in [1..Cardinality(s) -> s] : \A i, j \in DOMAIN q : i # j => q[i] # q[j]}

----------------------------------------------------------------------------
(* The geo-pool codec *)

\* expandLoop without the duplicate check: a later item replaces an earlier
\* one of the same location
RECURSIVE expandLoopOverwrite(_, _, _)
expandLoopOverwrite(rest, gt, acc) ==
    IF rest = <<>> THEN [expanded |-> acc, err |-> NoErr, location |-> ""]
    ELSE LET locationConfig == Head(rest)
             location == locationConfig[gt]
             ids == expandInterfaceToStringList(locationConfig["pool_ids"])
         IN expandLoopOverwrite(Tail(rest), gt,
              [k \in DOMAIN acc \cup {location} |->
                  IF k = location THEN ids ELSE acc[k]])

RECURSIVE expandLoop(_, _, _)
expandLoop(rest, gt, acc) ==
    IF rest = <<>> THEN [expanded |-> acc, err |-> NoErr, location |-> ""]
    ELSE LET locationConfig == Head(rest)
             location == locationConfig[gt]
         IN IF location \notin DOMAIN acc
            THEN expandLoop(Tail(rest), gt,
                   acc @@ (location :>
                       expandInterfaceToStringList(locationConfig["pool_ids"])))
            ELSE [expanded |-> NilMap, err |-> "duplicate_location",
                  location |-> location]

\* pool.(*schema.Set).List(): the items in hash order, one fixed order per
\* set.  CHOOSE fixes one; SpecCodec runs the loop under every order.
SetList(s) == CHOOSE q \in SetLists(s) : TRUE

\* expandGeoPools(pool, geoType)
expandGeoPools(pool, gt) == expandLoop(SetList(pool), gt, NilMap)

\* flattenGeoPools with the item's key fixed to "pop" whatever the geo type
flattenGeoPoolsPopKey(pools, gt) ==
    LET order == SetList(DOMAIN pools)
        flattenedList ==
            [i \in DOMAIN order |->
                geoConf("pop", order[i], flattenStringList(pools[order[i]]))]
    IN NewSet(flattenedList)

\* flattenGeoPools(pools, geoType)
flattenGeoPools(pools, gt) ==
    LET keys == DOMAIN pools
        order == SetList(keys)   \* Go ranges over a map in no fixed order
        flattenedList ==
            [i \in DOMAIN order |->
                geoConf(gt, order[i], flattenStringList(pools[order[i]]))]
    IN NewSet(flattenedList)

----------------------------------------------------------------------------
(* Data: the resource data, the API's load balancer, the client's answers *)

\* time.Time values the remote may report, and Format(time.RFC3339Nano)
Times == {"zero", "t1", "t2"}

FormatRFC3339Nano(t) ==
    CASE t = "zero" -> "0001-01-01T00:00:00Z"
      [] t = "t1"   -> "2019-03-01T10:00:00Z"
      [] t = "t2"   -> "2019-03-02T11:30:00.5Z"

\* the zero value of cloudflare.LoadBalancer
ZeroLB ==
    [ID |-> EmptyStr, Name |-> "", FallbackPool |-> "", DefaultPools |-> <<>>,
     Proxied |-> FALSE, Enabled |-> FALSE, TTL |-> 0, SteeringPolicy |-> "",
     Persistence |-> "", Description |-> "", RegionPools |-> NilMap,
     PopPools |-> NilMap, CreatedOn |-> "zero", ModifiedOn |-> "zero"]

\* a fresh *schema.ResourceData: every field at its zero value
ZeroData ==
    [id |-> EmptyStr, zone |-> EmptyStr, zone_id |-> "", name |-> "",
     fallback_pool_id |-> "", default_pool_ids |-> <<>>,
     session_affinity |-> "", proxied |-> FALSE, enabled |-> FALSE, ttl |-> 0,
     description |-> "", steering_policy |-> "", pop_pools |-> {},
     region_pools |-> {}, created_on |-> "", modified_on |-> ""]

\* the zero value d.GetOk compares a field with
ZeroValue(key) ==
    CASE key = "ttl" -> 0
      [] key \in {"pop_pools", "region_pools"} -> {}
      [] OTHER -> ""

\* d.GetOk(key): the value, and whether it is set to something other than
\* the zero value of its type
GetOk(dd, key) == [val |-> dd[key], ok |-> dd[key] # ZeroValue(key)]

\* what a remote call answered besides its error: the zone identifier of a
\* lookup, the identifier of a creation response, the load balancer of a fetch
Reply(zoneID, id, lb) == [zoneID |-> zoneID, ID |-> id, lb |-> lb]

NoReply == Reply("", EmptyStr, ZeroLB)

\* one remote call, as the call log keeps it: the method, its arguments (zone
\* name, zone identifier, load balancer identifier, load balancer sent), the
\* error it returned (<<>> is nil) and its reply
Call(method, zoneName, zoneID, id, lb, err, reply) ==
    [method |-> method, zoneName |-> zoneName, zoneID |-> zoneID, id |-> id,
     lb |-> lb, err |-> err, reply |-> reply]

\* what a handler leaves behind: the data, its return value, its calls
Outcome(dd, err, cs) == [d |-> dd, ret |-> err, calls |-> cs]

\* strings.Contains on messages held as word sequences
Contains(s, substr) ==
    \E i \in 0..(Len(s) - Len(substr)) : SubSeq(s, i + 1, i + Len(substr)) = substr

HTTP404 == <<"HTTP", "status", "404">>

----------------------------------------------------------------------------
(* Read *)

\* Read taking every failed fetch for a not-found
ReadClearsOnAnyError(dd, client) ==
    LET resp == client.LoadBalancerDetails[<<dd.zone_id, dd.id>>]
        call == Call("LoadBalancerDetails", EmptyStr, dd.zone_id, dd.id,
                     ZeroLB, resp.err, Reply("", EmptyStr, resp.lb))
    IN IF resp.err # <<>>
       THEN Outcome([dd EXCEPT !.id = EmptyStr], NoErr, <<call>>)
       ELSE Outcome(
              [dd EXCEPT
                 !.name = resp.lb.Name,
                 !.fallback_pool_id = resp.lb.FallbackPool,
                 !.proxied = resp.lb.Proxied,
                 !.enabled = resp.lb.Enabled,
                 !.description = resp.lb.Description,
                 !.ttl = resp.lb.TTL,
                 !.steering_policy = resp.lb.SteeringPolicy,
                 !.session_affinity = resp.lb.Persistence,
                 !.created_on = FormatRFC3339Nano(resp.lb.CreatedOn),
                 !.modified_on = FormatRFC3339Nano(resp.lb.ModifiedOn),
                 !.default_pool_ids = flattenStringList(resp.lb.DefaultPools),
                 !.pop_pools = flattenGeoPools(resp.lb.PopPools, "pop"),
                 !.region_pools = flattenGeoPools(resp.lb.RegionPools, "region")],
              NoErr, <<call>>)

\* resourceCloudflareLoadBalancerRead(d, meta)
Read(dd, client) ==
    LET zoneID == dd.zone_id
        loadBalancerID == dd.id
        resp == client.LoadBalancerDetails[<<zoneID, loadBalancerID>>]
        loadBalancer == resp.lb
        call == Call("LoadBalancerDetails", EmptyStr, zoneID, loadBalancerID,
                     ZeroLB, resp.err, Reply("", EmptyStr, resp.lb))
    IN IF resp.err # <<>>
       THEN IF Contains(resp.err, HTTP404)
            THEN Outcome([dd EXCEPT !.id = EmptyStr], NoErr, <<call>>)
            ELSE Outcome(dd, "error reading load balancer resource from API",
                         <<call>>)
       ELSE Outcome(
              [dd EXCEPT
                 !.name = loadBalancer.Name,
                 !.fallback_pool_id = loadBalancer.FallbackPool,
                 !.proxied = loadBalancer.Proxied,
                 !.enabled = loadBalancer.Enabled,
                 !.description = loadBalancer.Description,
                 !.ttl = loadBalancer.TTL,
                 !.steering_policy = loadBalancer.SteeringPolicy,
                 !.session_affinity = loadBalancer.Persistence,
                 !.created_on = FormatRFC3339Nano(loadBalancer.CreatedOn),
                 !.modified_on = FormatRFC3339Nano(loadBalancer.ModifiedOn),
                 !.default_pool_ids = flattenStringList(loadBalancer.DefaultPools),
                 !.pop_pools = flattenGeoPools(loadBalancer.PopPools, "pop"),
                 !.region_pools = flattenGeoPools(loadBalancer.RegionPools, "region")],
              NoErr, <<call>>)

----------------------------------------------------------------------------
(* Create and Update *)

\* the load balancer Create builds from the declared fields, or the error it
\* returns while building it (lines 187-221)
newLoadBalancer(dd) ==
    LET base == [ZeroLB EXCEPT
                   !.Name = dd.name,
                   !.FallbackPool = dd.fallback_pool_id,
                   !.DefaultPools = expandInterfaceToStringList(dd.default_pool_ids),
                   !.Proxied = dd.proxied,
                   !.Enabled = dd.enabled,
                   !.TTL = dd.ttl,
                   !.SteeringPolicy = dd.steering_policy,
                   !.Persistence = dd.session_affinity]
        description == GetOk(dd, "description")
        withDescription ==
            IF description.ok THEN [base EXCEPT !.Description = description.val]
            ELSE base
        ttl == GetOk(dd, "ttl")
        withTTL ==
            IF ttl.ok THEN [withDescription EXCEPT !.TTL = ttl.val]
            ELSE withDescription
        regionPools == GetOk(dd, "region_pools")
        expandedRegionPools == expandGeoPools(regionPools.val, "region")
        withRegion ==
            IF regionPools.ok
            THEN [withTTL EXCEPT !.RegionPools = expandedRegionPools.expanded]
            ELSE withTTL
        popPools == GetOk(dd, "pop_pools")
        expandedPopPools == expandGeoPools(popPools.val, "pop")
        withPop ==
            IF popPools.ok
            THEN [withRegion EXCEPT !.PopPools = expandedPopPools.expanded]
            ELSE withRegion
    IN IF regionPools.ok /\ expandedRegionPools.err # NoErr
       THEN [lb |-> ZeroLB, err |-> expandedRegionPools.err]
       ELSE IF popPools.ok /\ expandedPopPools.err # NoErr
       THEN [lb |-> ZeroLB, err |-> expandedPopPools.err]
       ELSE [lb |-> withPop, err |-> NoErr]

\* the load balancer of Update with session_affinity left out
loadBalancerWithoutAffinity(dd) ==
    LET base == [ZeroLB EXCEPT
                   !.ID = dd.id,
                   !.Name = dd.name,
                   !.FallbackPool = dd.fallback_pool_id,
                   !.DefaultPools = expandInterfaceToStringList(dd.default_pool_ids),
                   !.Proxied = dd.proxied,
                   !.Enabled = dd.enabled,
                   !.TTL = dd.ttl,
                   !.SteeringPolicy = dd.steering_policy]
        description == GetOk(dd, "description")
        withDescription ==
            IF description.ok THEN [base EXCEPT !.Description = description.val]
            ELSE base
        regionPools == GetOk(dd, "region_pools")
        expandedRegionPools == expandGeoPools(regionPools.val, "region")
        withRegion ==
            IF regionPools.ok
            THEN [withDescription EXCEPT !.RegionPools = expandedRegionPools.expanded]
            ELSE withDescription
        popPools == GetOk(dd, "pop_pools")
        expandedPopPools == expandGeoPools(popPools.val, "pop")
        withPop ==
            IF popPools.ok
            THEN [withRegion EXCEPT !.PopPools = expandedPopPools.expanded]
            ELSE withRegion
    IN IF regionPools.ok /\ expandedRegionPools.err # NoErr
       THEN [lb |-> ZeroLB, err |-> expandedRegionPools.err]
       ELSE IF popPools.ok /\ expandedPopPools.err # NoErr
       THEN [lb |-> ZeroLB, err |-> expandedPopPools.err]
       ELSE [lb |-> withPop, err |-> NoErr]

\* the load balancer Update builds from the declared fields, or the error it
\* returns while building it (lines 256-287)
loadBalancer(dd) ==
    LET base == [ZeroLB EXCEPT
                   !.ID = dd.id,
                   !.Name = dd.name,
                   !.FallbackPool = dd.fallback_pool_id,
                   !.DefaultPools = expandInterfaceToStringList(dd.default_pool_ids),
                   !.Proxied = dd.proxied,
                   !.Enabled = dd.enabled,
                   !.TTL = dd.ttl,
                   !.SteeringPolicy = dd.steering_policy,
                   !.Persistence = dd.session_affinity]
        description == GetOk(dd, "description")
        withDescription ==
            IF description.ok THEN [base EXCEPT !.Description = description.val]
            ELSE base
        regionPools == GetOk(dd, "region_pools")
        expandedRegionPools == expandGeoPools(regionPools.val, "region")
        withRegion ==
            IF regionPools.ok
            THEN [withDescription EXCEPT !.RegionPools = expandedRegionPools.expanded]
            ELSE withDescription
        popPools == GetOk(dd, "pop_pools")
        expandedPopPools == expandGeoPools(popPools.val, "pop")
        withPop ==
            IF popPools.ok
            THEN [withRegion EXCEPT !.PopPools = expandedPopPools.expanded]
            ELSE withRegion
    IN IF regionPools.ok /\ expandedRegionPools.err # NoErr
       THEN [lb |-> ZeroLB, err |-> expandedRegionPools.err]
       ELSE IF popPools.ok /\ expandedPopPools.err # NoErr
       THEN [lb |-> ZeroLB, err |-> expandedPopPools.err]
       ELSE [lb |-> withPop, err |-> NoErr]

\* createRemote going on to the creation call after a failed zone lookup
createRemoteKeepsGoing(dd, client, lb) ==
    LET zoneName == dd.zone
        lookup == client.ZoneIDByName[zoneName]
        lookupCalls ==
            IF dd.zone_id = ""
            THEN <<Call("ZoneIDByName", zoneName, "", EmptyStr, ZeroLB, lookup.err,
                        Reply(lookup.zoneID, EmptyStr, ZeroLB))>>
            ELSE <<>>
        zoneID == IF dd.zone_id = "" THEN lookup.zoneID ELSE dd.zone_id
        d1 == [dd EXCEPT !.zone_id = zoneID]
        r == client.CreateLoadBalancer
        createCalls ==
            lookupCalls \o
              <<Call("CreateLoadBalancer", EmptyStr, zoneID, EmptyStr, lb, r.err,
                     Reply("", r.ID, ZeroLB))>>
        d2 == [d1 EXCEPT !.id = r.ID]
        read == Read(d2, client)
    IN IF r.err # <<>>
       THEN Outcome(d1, "error creating load balancer for zone", createCalls)
       ELSE IF r.ID = EmptyStr
       THEN Outcome(d1, "failed to find id in Create response", createCalls)
       ELSE Outcome(read.d, read.ret, createCalls \o read.calls)

\* Create from the zone lookup on (lines 223-248), lb being the finished
\* load balancer
createRemote(dd, client, lb) ==
    LET zoneName == dd.zone
        lookup == client.ZoneIDByName[zoneName]
        lookupCalls ==
            IF dd.zone_id = ""
            THEN <<Call("ZoneIDByName", zoneName, "", EmptyStr, ZeroLB, lookup.err,
                        Reply(lookup.zoneID, EmptyStr, ZeroLB))>>
            ELSE <<>>
        zoneID == IF dd.zone_id = "" THEN lookup.zoneID ELSE dd.zone_id
        d1 == [dd EXCEPT !.zone_id = zoneID]
        r == client.CreateLoadBalancer
        createCalls ==
            lookupCalls \o
              <<Call("CreateLoadBalancer", EmptyStr, zoneID, EmptyStr, lb, r.err,
                     Reply("", r.ID, ZeroLB))>>
        d2 == [d1 EXCEPT !.id = r.ID]
        read == Read(d2, client)
    IN IF dd.zone_id = "" /\ lookup.err # <<>>
       THEN Outcome(dd, "error finding zone", lookupCalls)
       ELSE IF r.err # <<>>
       THEN Outcome(d1, "error creating load balancer for zone", createCalls)
       ELSE IF r.ID = EmptyStr
       THEN Outcome(d1, "failed to find id in Create response", createCalls)
       ELSE Outcome(read.d, read.ret, createCalls \o read.calls)

\* Create without the check that a zone name or a zone identifier is given
CreateWithoutZoneCheck(dd, client) ==
    LET built == newLoadBalancer(dd)
    IN IF built.err # NoErr THEN Outcome(dd, built.err, <<>>)
       ELSE createRemote(dd, client, built.lb)

\* resourceCloudflareLoadBalancerCreate(d, meta)
Create(dd, client) ==
    LET zoneName == dd.zone
        zoneID == dd.zone_id
        built == newLoadBalancer(dd)
    IN IF zoneName = EmptyStr /\ zoneID = ""
       THEN Outcome(dd, MissingZone, <<>>)
       ELSE IF built.err # NoErr THEN Outcome(dd, built.err, <<>>)
       ELSE createRemote(dd, client, built.lb)

\* resourceCloudflareLoadBalancerUpdate(d, meta)
Update(dd, client) ==
    LET zoneID == dd.zone_id
        built == loadBalancer(dd)
        modify == client.ModifyLoadBalancer
        modifyCalls ==
            <<Call("ModifyLoadBalancer", EmptyStr, zoneID, EmptyStr, built.lb,
                   modify.err, NoReply)>>
        read == Read(dd, client)
    IN IF built.err # NoErr THEN Outcome(dd, built.err, <<>>)
       ELSE IF modify.err # <<>>
       THEN Outcome(dd, "error creating load balancer for zone", modifyCalls)
       ELSE Outcome(read.d, read.ret, modifyCalls \o read.calls)

----------------------------------------------------------------------------
(* Delete and Import *)

\* resourceCloudflareLoadBalancerDelete(d, meta)
Delete(dd, client) ==
    LET zoneID == dd.zone_id
        loadBalancerID == dd.id
        del == client.DeleteLoadBalancer
        deleteCalls ==
            <<Call("DeleteLoadBalancer", EmptyStr, zoneID, loadBalancerID, ZeroLB,
                   del.err, NoReply)>>
    IN IF del.err # <<>>
       THEN Outcome(dd, "error deleting Cloudflare Load Balancer", deleteCalls)
       ELSE Outcome(dd, NoErr, deleteCalls)

\* whether sep occurs in s
HasSep(s, sep) == \E i \in DOMAIN s : s[i] = sep

\* where sep first occurs in s
FirstSep(s, sep) ==
    CHOOSE i \in DOMAIN s : s[i] = sep /\ \A j \in 1..(i - 1) : s[j] # sep

\* where sep last occurs in s
LastSep(s, sep) ==
    CHOOSE i \in DOMAIN s : s[i] = sep /\ \A j \in (i + 1)..Len(s) : s[j] # sep

\* a split in two at the last sep instead of the first
SplitAtLast(s, sep) ==
    IF ~HasSep(s, sep) THEN <<s>>
    ELSE <<SubSeq(s, 1, LastSep(s, sep) - 1),
           SubSeq(s, LastSep(s, sep) + 1, Len(s))>>

\* strings.SplitN(s, sep, 2) for a one-character sep
SplitN2(s, sep) ==
    IF ~HasSep(s, sep) THEN <<s>>
    ELSE <<SubSeq(s, 1, FirstSep(s, sep) - 1),
           SubSeq(s, FirstSep(s, sep) + 1, Len(s))>>

\* resourceCloudflareLoadBalancerImport(d, meta)
Import(dd, client) ==
    LET idAttr == SplitN2(dd.id, "/")
        zoneName == idAttr[1]
        loadBalancerID == idAttr[2]
        lookup == client.ZoneIDByName[zoneName]
        lookupCalls ==
            <<Call("ZoneIDByName", zoneName, "", EmptyStr, ZeroLB, lookup.err,
                   Reply(lookup.zoneID, EmptyStr, ZeroLB))>>
    IN IF Len(idAttr) # 2
       THEN Outcome(dd, "invalid id specified", <<>>)
       ELSE IF lookup.err # <<>>
       THEN Outcome(dd, "error finding zoneName", lookupCalls)
       ELSE Outcome([dd EXCEPT !.zone = zoneName,
                               !.zone_id = lookup.zoneID,
                               !.id = loadBalancerID],
                    NoErr, lookupCalls)

----------------------------------------------------------------------------
(* The environment: configurations the SDK hands over, answers of the API *)

\* the characters of an import identifier
Chars == {"a", "/"}

\* strings of at most n characters
Strings(n) == UNION {[1..k -> Chars] : k \in 0..n}

\* identifiers the remote assigns in a creation response (it may carry none)
CreatedIds == {EmptyStr, <<"i", "1">>, <<"i", "2">>}

IdSpace == Strings(MaxIdLen) \cup CreatedIds

ZoneNames == {EmptyStr, <<"a">>}

ZoneNameSpace == Strings(MaxIdLen) \cup ZoneNames

ZoneIdSpace == {"", "zid0", "zid1", "zid2"}

\* the pop_pools / region_pools sets the lifecycle configurations declare:
\* none, one location, two locations, one location twice
PlanPoolSets(gt) ==
    {{},
     {geoConf(gt, "LAX", flattenStringList(<<"p1">>))},
     {geoConf(gt, "LAX", flattenStringList(<<"p1">>)),
      geoConf(gt, "JFK", flattenStringList(<<"p2", "p1">>))},
     {geoConf(gt, "LAX", flattenStringList(<<"p1">>)),
      geoConf(gt, "LAX", flattenStringList(<<"p2", "p1">>))}}

\* the schema's load balancer fields as a configuration declares them
\* (lines 42-116); proxied and ttl conflict, so at most one of them is set
ConfigSpace ==
    {c \in [name : {"www"}, fallback_pool_id : {"p1"},
            default_pool_ids : {flattenStringList(<<"p1", "p2">>)},
            session_affinity : {"cookie"}, proxied : BOOLEAN, enabled : BOOLEAN,
            ttl : {0, 30}, description : {"", "edge"},
            steering_policy : {"geo"},
            pop_pools : PlanPoolSets("pop"),
            region_pools : PlanPoolSets("region")] :
        ~(c.proxied /\ c.ttl # 0)}

\* the zone a configuration names: zone and zone_id are both optional
\* (lines 28-40)
ZoneRefs == [zone : ZoneNames, zone_id : {"", "zid0"}]

\* the data of a new resource: the configuration alone
PlannedNew(c, z) ==
    [ZeroData EXCEPT
       !.zone = z.zone, !.zone_id = z.zone_id, !.name = c.name,
       !.fallback_pool_id = c.fallback_pool_id,
       !.default_pool_ids = c.default_pool_ids,
       !.session_affinity = c.session_affinity,
       !.proxied = c.proxied, !.enabled = c.enabled, !.ttl = c.ttl,
       !.description = c.description,
       !.steering_policy = c.steering_policy,
       !.pop_pools = c.pop_pools, !.region_pools = c.region_pools]

\* the data of a resource that is held, with configuration c: it keeps its
\* identifier, its zone (a change of zone forces a new resource) and its
\* computed timestamps
PlannedChange(dd, c) ==
    [dd EXCEPT
       !.name = c.name,
       !.fallback_pool_id = c.fallback_pool_id,
       !.default_pool_ids = c.default_pool_ids,
       !.session_affinity = c.session_affinity,
       !.proxied = c.proxied, !.enabled = c.enabled, !.ttl = c.ttl,
       !.description = c.description,
       !.steering_policy = c.steering_policy,
       !.pop_pools = c.pop_pools, !.region_pools = c.region_pools]

\* error messages of a failed remote call
RemoteErrors ==
    {<<"error", "from", "makeRequest", "HTTP", "status", "404", "not", "found">>,
     <<"error", "from", "makeRequest", "HTTP", "status", "500">>}

\* answers of client.ZoneIDByName
ZoneLookups ==
    {[err |-> e, zoneID |-> ""] : e \in RemoteErrors} \cup
    {[err |-> <<>>, zoneID |-> z] : z \in {"zid1", "zid2"}}

\* answers of client.CreateLoadBalancer
CreateAnswers ==
    {[err |-> e, ID |-> EmptyStr] : e \in RemoteErrors} \cup
    {[err |-> <<>>, ID |-> i] : i \in CreatedIds}

\* answers of client.ModifyLoadBalancer and client.DeleteLoadBalancer
PlainAnswers == {[err |-> e] : e \in RemoteErrors \cup {<<>>}}

\* load balancers the remote may report
RemoteLBs ==
    {[ID |-> <<"i", "1">>, Name |-> "www", FallbackPool |-> "p1",
      DefaultPools |-> <<"p1", "p2">>, Proxied |-> FALSE, Enabled |-> TRUE,
      TTL |-> 30, SteeringPolicy |-> "geo", Persistence |-> "none",
      Description |-> "", RegionPools |-> ("JFK" :> <<"p2", "p1">>),
      PopPools |-> NilMap, CreatedOn |-> "t1", ModifiedOn |-> "t1"],
     [ID |-> <<"i", "2">>, Name |-> "api", FallbackPool |-> "p2",
      DefaultPools |-> <<"p2">>, Proxied |-> TRUE, Enabled |-> FALSE,
      TTL |-> 0, SteeringPolicy |-> "off", Persistence |-> "cookie",
      Description |-> "edge", RegionPools |-> NilMap,
      PopPools |-> ("LAX" :> <<"p1", "p2">>) @@ ("JFK" :> <<"p1">>),
      CreatedOn |-> "t1", ModifiedOn |-> "t2"]}

\* answers of client.LoadBalancerDetails
DetailsAnswers ==
    {[err |-> e, lb |-> ZeroLB] : e \in RemoteErrors} \cup
    {[err |-> <<>>, lb |-> lb] : lb \in RemoteLBs}

\* a client whose every method gives one answer whatever the request: a
\* handler calls each method at most once, so this covers all it can meet
Client(lookup, create, plain, details) ==
    [ZoneIDByName |-> [n \in ZoneNameSpace |-> lookup],
     CreateLoadBalancer |-> create,
     ModifyLoadBalancer |-> plain,
     DeleteLoadBalancer |-> plain,
     LoadBalancerDetails |-> [q \in ZoneIdSpace \X IdSpace |-> details]]

\* a client that answers fetches by request and is asked nothing else
ClientFetching(fetch) ==
    [ZoneIDByName |-> [n \in ZoneNameSpace |-> [err |-> <<"unasked">>, zoneID |-> ""]],
     CreateLoadBalancer |-> [err |-> <<"unasked">>, ID |-> EmptyStr],
     ModifyLoadBalancer |-> [err |-> <<"unasked">>],
     DeleteLoadBalancer |-> [err |-> <<"unasked">>],
     LoadBalancerDetails |-> fetch]

\* the answers of the methods a handler never calls
NoLookup == [err |-> <<"unasked">>, zoneID |-> ""]

NoCreate == [err |-> <<"unasked">>, ID |-> EmptyStr]

NoPlain == [err |-> <<"unasked">>]

NoDetails == [err |-> <<"unasked">>, lb |-> ZeroLB]

----------------------------------------------------------------------------
(* The lifecycle state machine *)

\* no resource is held: the identifier is empty, or Delete has succeeded
\* (the SDK then drops the state)
Absent == d.id = EmptyStr \/ (op = "Delete" /\ ret = NoErr)

CodecIdle ==
    /\ declared = <<>>
    /\ geoType = "pop"
    /\ cfg = <<>>
    /\ expanded = [expanded |-> NilMap, err |-> NoErr, location |-> ""]
    /\ flattened = {}
    /\ step = "idle"

Init ==
    /\ d = ZeroData
    /\ pre = ZeroData
    /\ op = "Init"
    /\ ret = NoErr
    /\ calls = <<>>
    /\ CodecIdle

Ran(name, before, out) ==
    /\ d' = out.d
    /\ ret' = out.ret
    /\ calls' = out.calls
    /\ pre' = before
    /\ op' = name
    /\ UNCHANGED codecVars

\* the SDK drops the state of a resource that is no longer held
Drop ==
    /\ Absent
    /\ op \notin {"Init", "Plan"}
    /\ d' = ZeroData
    /\ pre' = ZeroData
    /\ op' = "Init"
    /\ ret' = NoErr
    /\ calls' = <<>>
    /\ UNCHANGED codecVars

Planning(planned) ==
    /\ d' = planned
    /\ pre' = planned
    /\ op' = "Plan"
    /\ ret' = NoErr
    /\ calls' = <<>>
    /\ UNCHANGED codecVars

\* the SDK plans a new resource: the data Create will be given
PlanNew ==
    /\ op = "Init"
    /\ \E c \in ConfigSpace, z \in ZoneRefs : Planning(PlannedNew(c, z))

\* after a refresh the SDK plans a change: the data Update will be given
PlanChange ==
    /\ op = "Read"
    /\ ret = NoErr
    /\ ~Absent
    /\ \E c \in ConfigSpace : Planning(PlannedChange(d, c))

\* the SDK calls Create for a planned resource that has no identifier
CreateOp ==
    /\ op = "Plan"
    /\ d.id = EmptyStr
    /\ \E l \in ZoneLookups, c \in CreateAnswers, f \in DetailsAnswers :
         Ran("Create", d, Create(d, Client(l, c, NoPlain, f)))

\* the SDK calls Update for a planned change of a resource it holds
UpdateOp ==
    /\ op = "Plan"
    /\ d.id # EmptyStr
    /\ \E m \in PlainAnswers, f \in DetailsAnswers :
         Ran("Update", d, Update(d, Client(NoLookup, NoCreate, m, f)))

\* the SDK refreshes a resource it holds
ReadOp ==
    /\ op # "Plan"
    /\ ~Absent
    /\ \E f \in DetailsAnswers :
         Ran("Read", d, Read(d, Client(NoLookup, NoCreate, NoPlain, f)))

\* the SDK destroys a resource it holds
DeleteOp ==
    /\ op # "Plan"
    /\ ~Absent
    /\ \E m \in PlainAnswers :
         Ran("Delete", d, Delete(d, Client(NoLookup, NoCreate, m, NoDetails)))

\* the SDK imports into fresh data whose identifier is the one given
ImportOp ==
    /\ op = "Init"
    /\ \E s \in Strings(MaxIdLen), l \in ZoneLookups :
         LET given == [ZeroData EXCEPT !.id = s]
         IN Ran("Import", given,
                Import(given, Client(l, NoCreate, NoPlain, NoDetails)))

Next == Drop \/ PlanNew \/ PlanChange \/ CreateOp \/ UpdateOp \/ ReadOp \/ DeleteOp \/ ImportOp

Spec == Init /\ [][Next]_vars

----------------------------------------------------------------------------
(* The codec on its own: every declared list, every order of Set.List() *)

\* the lists of geo-pool blocks a configuration may declare for geoType gt
DeclaredLists(gt) == UNION {[1..n -> GeoItems(gt)] : n \in 0..MaxDeclared}

\* the *schema.Set the SDK builds from the declared blocks
Pool == NewSet(declared)

InitCodec ==
    /\ d = ZeroData
    /\ pre = ZeroData
    /\ op = "Init"
    /\ ret = NoErr
    /\ calls = <<>>
    /\ geoType \in GeoTypes
    /\ declared \in DeclaredLists(geoType)
    /\ cfg \in SetLists(NewSet(declared))
    /\ expanded = [expanded |-> NilMap, err |-> NoErr, location |-> ""]
    /\ flattened = {}
    /\ step = "declared"

\* expandGeoPools on the declared set, cfg being what Set.List() yields
ExpandStep ==
    /\ step = "declared"
    /\ expanded' = expandLoop(cfg, geoType, NilMap)
    /\ step' = "expanded"
    /\ UNCHANGED <<declared, geoType, cfg, flattened>>
    /\ UNCHANGED lifecycleVars

\* flattenGeoPools on the map expandGeoPools returned
FlattenStep ==
    /\ step = "expanded"
    /\ expanded.err = NoErr
    /\ flattened' = flattenGeoPools(expanded.expanded, geoType)
    /\ step' = "flattened"
    /\ UNCHANGED <<declared, geoType, cfg, expanded>>
    /\ UNCHANGED lifecycleVars

NextCodec == ExpandStep \/ FlattenStep

SpecCodec == InitCodec /\ [][NextCodec]_vars

----------------------------------------------------------------------------
(* Properties of the codec *)

\* no two items of set s share a location key
UniqueKeys(s, gt) == \A a, b \in s : a[gt] = b[gt] => a = b

\* C1: for a set of geo-pool items with pairwise distinct location keys,
\* expandGeoPools succeeds, its map holds exactly the set's location keys,
\* each with its pool identifiers in the order given, and flattenGeoPools of
\* that map is the set again: no item missing, none added.
RoundTrip ==
    UniqueKeys(Pool, geoType) =>
      /\ step \in {"expanded", "flattened"} =>
           /\ expanded.err = NoErr
           /\ DOMAIN expanded.expanded = {a[geoType] : a \in Pool}
           /\ \A a \in Pool :
                LET ids == expanded.expanded[a[geoType]]
                IN /\ Len(ids) = Len(a["pool_ids"])
                   /\ \A i \in 1..Len(ids) : ids[i] = a["pool_ids"][i].val
      /\ step = "flattened" => flattened = Pool

RoundTripWitness ==
    /\ step = "flattened"
    /\ Cardinality(Pool) = 2
    /\ \E a \in flattened : Len(a["pool_ids"]) = 2

\* C2: when two items of the set share a location key, expandGeoPools returns
\* the duplicate-location error for that key and no map, whatever the pool
\* identifiers of the items are.
DuplicateRejected ==
    (step # "declared" /\ ~UniqueKeys(Pool, geoType)) =>
      /\ expanded.err = "duplicate_location"
      /\ expanded.expanded = NilMap
      /\ \E a, b \in Pool : a # b /\ a[geoType] = expanded.location
                                   /\ b[geoType] = expanded.location

DuplicateRejectedWitness ==
    /\ step = "expanded"
    /\ expanded.err = "duplicate_location"
    /\ \E a, b \in Pool : a # b /\ a[geoType] = b[geoType]

----------------------------------------------------------------------------
(* Properties of the lifecycle handlers.  pre is the data the last handler   *)
(* was given, d the data it left, ret its return value, calls its calls.    *)

\* the positions of the calls of a method in the log
CallsOf(method) == {i \in DOMAIN calls : calls[i].method = method}

NotFound(err) == Contains(err, HTTP404)

\* C3: Create with both zone and zone_id empty returns an error and makes no
\* remote call, whatever else the configuration declares.
MissingZoneRejected ==
    (op = "Create" /\ pre.zone = EmptyStr /\ pre.zone_id = "") =>
      (ret # NoErr /\ calls = <<>>)

MissingZoneWitness ==
    /\ op = "Create"
    /\ pre.zone = EmptyStr
    /\ pre.zone_id = ""
    /\ pre.pop_pools # {}
    /\ pre.ttl # 0
    /\ ret = MissingZone

\* C4: when the fetch of Read fails with not-found, Read empties the local
\* identifier and returns nil; when it fails otherwise, Read returns an error
\* and leaves the identifier as it was.
ReadNotFoundClears ==
    op = "Read" =>
      /\ NotFound(calls[1].err) => (d.id = EmptyStr /\ ret = NoErr)
      /\ (calls[1].err # <<>> /\ ~NotFound(calls[1].err)) =>
           (ret # NoErr /\ d.id = pre.id)

ReadNotFoundWitness ==
    /\ op = "Read"
    /\ NotFound(calls[1].err)
    /\ pre.id # EmptyStr
    /\ d.id = EmptyStr
    /\ ret = NoErr

\* C5: whenever Create returns nil, the creation response carried an
\* identifier and the local identifier is that identifier; when the creation
\* response carries none, Create returns an error and the local identifier
\* stays empty.
CreateLeavesPresent ==
    op = "Create" =>
      /\ ret = NoErr =>
           \E i \in CallsOf("CreateLoadBalancer") :
              /\ calls[i].err = <<>>
              /\ calls[i].reply.ID # EmptyStr
              /\ d.id # EmptyStr
              /\ d.id = calls[i].reply.ID
      /\ \A i \in CallsOf("CreateLoadBalancer") :
           (calls[i].err = <<>> /\ calls[i].reply.ID = EmptyStr) =>
             (ret # NoErr /\ d.id = EmptyStr)

\* C6: Import splits an identifier that holds a "/" at the first one: the
\* zone name looked up is the text before it, and when the lookup succeeds
\* the data holds that zone name, the zone identifier the lookup gave and, as
\* identifier, everything after that "/".  Without a "/" Import fails and
\* makes no remote call.
ImportSplitsAtFirstSeparator ==
    op = "Import" =>
      IF \E i \in DOMAIN pre.id : pre.id[i] = "/"
      THEN /\ Len(calls) = 1
           /\ calls[1].method = "ZoneIDByName"
           /\ LET z == calls[1].zoneName
              IN /\ Len(z) < Len(pre.id)
                 /\ \A i \in DOMAIN z : z[i] = pre.id[i] /\ z[i] # "/"
                 /\ pre.id[Len(z) + 1] = "/"
                 /\ calls[1].err = <<>> =>
                      /\ ret = NoErr
                      /\ d.zone = z
                      /\ d.zone_id = calls[1].reply.zoneID
                      /\ d.id = SubSeq(pre.id, Len(z) + 2, Len(pre.id))
      ELSE ret # NoErr /\ calls = <<>>

ImportWitness ==
    /\ op = "Import"
    /\ ret = NoErr
    /\ d.zone # EmptyStr
    /\ \E i \in DOMAIN d.id : d.id[i] = "/"

\* C7: the load balancer Update sends to ModifyLoadBalancer is, field for
\* field, the one Create sends to CreateLoadBalancer for the same data, with
\* the local identifier added; and either handler sends what it builds.
UpdateSendsCreatePayload ==
    /\ op = "Update" =>
         LET created == newLoadBalancer(pre)
         IN /\ created.err = NoErr => CallsOf("ModifyLoadBalancer") = {1}
            /\ \A i \in CallsOf("ModifyLoadBalancer") :
                 /\ created.err = NoErr
                 /\ calls[i].lb = [created.lb EXCEPT !.ID = pre.id]
    /\ op = "Create" =>
         \A i \in CallsOf("CreateLoadBalancer") :
            calls[i].lb = newLoadBalancer(pre).lb

UpdatePayloadWitness ==
    /\ op = "Update"
    /\ CallsOf("ModifyLoadBalancer") = {1}
    /\ calls[1].lb.ID # EmptyStr
    /\ calls[1].lb.TTL = 30
    /\ calls[1].lb.Description = "edge"
    /\ calls[1].lb.RegionPools # NilMap
    /\ calls[1].lb.PopPools # NilMap

\* Read run once more on the data the last Read left, the remote answering
\* the request of that Read as it did and any other request with `other`
ReadAgain(other) ==
    LET first == [err |-> calls[1].err, lb |-> calls[1].reply.lb]
        fetch == [q \in ZoneIdSpace \X IdSpace |->
                    IF q = <<pre.zone_id, pre.id>> THEN first ELSE other]
    IN Read(d, ClientFetching(fetch))

\* C8: Read is idempotent: with the remote unchanged, a second Read leaves
\* the data as the first left it and returns what the first returned.
ReadIdempotent ==
    op = "Read" =>
      \A other \in DetailsAnswers :
         ReadAgain(other).d = d /\ ReadAgain(other).ret = ret

\* C8, amended: the same, provided the fetch of the first Read did not report
\* not-found, or the remote reports not-found for the empty identifier too
\* (after a not-found the identifier is empty, and that is what the second
\* Read fetches).
ReadIdempotentWhileHeld ==
    op = "Read" =>
      \A other \in DetailsAnswers :
         (NotFound(calls[1].err) => NotFound(other.err)) =>
           (ReadAgain(other).d = d /\ ReadAgain(other).ret = ret)

ReadIdempotentWitness ==
    /\ op = "Read"
    /\ ret = NoErr
    /\ d.id # EmptyStr
    /\ d.pop_pools # {}
    /\ d # pre

\* C9: a handler calls each remote method at most once, makes no call after
\* one that failed, and returns an error when a call failed, unless that call
\* is the fetch of Read and it reported not-found.
FailsAtFirstFailedCall ==
    op \in {"Create", "Read", "Update", "Delete", "Import"} =>
      /\ \A i, j \in DOMAIN calls :
           calls[i].method = calls[j].method => i = j
      /\ \A i \in DOMAIN calls : calls[i].err # <<>> => i = Len(calls)
      /\ \A i \in DOMAIN calls :
           calls[i].err # <<>> =>
             \/ ret # NoErr
             \/ /\ calls[i].method = "LoadBalancerDetails"
                /\ NotFound(calls[i].err)

FailsAtFirstFailedCallWitness ==
    /\ op = "Create"
    /\ Len(calls) = 2
    /\ calls[1].err = <<>>
    /\ NotFound(calls[2].err)
    /\ ret # NoErr

\* the data declares a location twice in region_pools or in pop_pools
DeclaresDuplicate(dd) ==
    ~UniqueKeys(dd.region_pools, "region") \/ ~UniqueKeys(dd.pop_pools, "pop")

\* C10: Create and Update, given region_pools or pop_pools that declare a
\* location twice, return the duplicate-location error before any remote call
\* and leave the identifier and zone_id as they were.
DuplicateBeforeRemote ==
    (op \in {"Create", "Update"} /\ DeclaresDuplicate(pre)) =>
      /\ ret = "duplicate_location"
      /\ calls = <<>>
      /\ d.id = pre.id
      /\ d.zone_id = pre.zone_id

\* C10, amended: they return an error before any remote call and leave the
\* identifier and zone_id as they were; the error is the duplicate-location
\* error, except that Create with neither zone nor zone_id returns the
\* missing-zone error, which it checks first.
DuplicateOrMissingZoneBeforeRemote ==
    (op \in {"Create", "Update"} /\ DeclaresDuplicate(pre)) =>
      /\ ret = IF op = "Create" /\ pre.zone = EmptyStr /\ pre.zone_id = ""
               THEN MissingZone
               ELSE "duplicate_location"
      /\ calls = <<>>
      /\ d.id = pre.id
      /\ d.zone_id = pre.zone_id

DuplicateBeforeRemoteWitness ==
    /\ op = "Update"
    /\ UniqueKeys(pre.region_pools, "region")
    /\ ~UniqueKeys(pre.pop_pools, "pop")
    /\ ret = "duplicate_location"
    /\ calls = <<>>

====
